---- MODULE Spec2Model ----
(***************************************************************************)
(* The upload-config phase of kubeadm                                      *)
(* (cmd/kubeadm/app/cmd/phases/uploadconfig.go): the two run functions     *)
(* runUploadKubeadmConfig and runUploadKubeletConfig, the resolution of    *)
(* their inputs by getUploadConfigData, and the three collaborators they   *)
(* drive.  One invocation runs at a time (the workflow engine calls a run  *)
(* function and waits for its result); every statement of a run function   *)
(* that calls out of the package is one step.                              *)
(*                                                                         *)
(* An error is the sequence of the message parts that Error() joins with   *)
(* ": ", outermost first; the nil error is the empty sequence.  A pointer  *)
(* to an InitConfiguration is a name, `InitConfiguration` is the heap it   *)
(* points into, and "nil" is the nil pointer and the nil client.           *)
(***************************************************************************)
EXTENDS Naturals, Sequences, FiniteSets

VARIABLES
    pc,       \* position of the invocation in progress, "idle" between two
    fn,       \* the run function invoked: "kubeadm" or "kubelet"
    c,        \* the workflow.RunData the engine passed
    cfg,      \* local cfg of the run function
    client,   \* local client of the run function
    err,      \* local err of the run function
    ret,      \* the error the run function returned
    calls,    \* the calls this invocation made out of the package, in order
    cluster,  \* what the collaborators persisted in the cluster
    before,   \* cluster as it was when this invocation started
    prev,     \* the invocation that ended last: its fn, c, ret and calls
    runs      \* number of invocations started

vars == <<pc, fn, c, cfg, client, err, ret, calls, cluster, before, prev, runs>>

\* How many times the workflow engine invokes a run function.
MaxRuns == 3

----------------------------------------------------------------------------
\* Errors

NoErr == << >>

ContractViolation == <<"upload-config phase invoked with an invalid data struct">>

UploadPrefix == "error uploading the kubeadm ClusterConfiguration"

CreatePrefix == "error creating kubelet configuration ConfigMap"

AnnotatePrefix == "Error writing Crisocket information for the control-plane node"

\* What Client() and the collaborators can fail with.
BaseErrs == {<<"quota exceeded">>, <<"connection refused">>}

\* errors.Wrap(e, msg): nil for a nil e, else an error whose text is msg, ": ",
\* and the text of e.
Wrap(e, msg) == IF e = NoErr THEN NoErr ELSE <<msg>> \o e

\* The text of e contains the part s.
Contains(e, s) == \E i \in 1..Len(e) : e[i] = s

----------------------------------------------------------------------------
\* Configurations, clients and contexts

NilPtr == "nil"

NilClient == "nil"

NoArg == "-"

CfgPtrs == {"cfg-a", "cfg-b", "cfg-c"}

Clients == {"client-1", "client-2"}

\* The InitConfiguration each pointer points to; the run functions only read it.
InitConfiguration ==
    [p \in CfgPtrs |->
        CASE p = "cfg-a" ->
               [NodeRegistration |-> [Name |-> "node-1", CRISocket |-> "unix:///run/x.sock"],
                ClusterConfiguration |-> "cluster-a",
                Kubelet |-> "kubelet-a"]
          [] p = "cfg-b" ->
               [NodeRegistration |-> [Name |-> "node-2", CRISocket |-> "/var/run/dockershim.sock"],
                ClusterConfiguration |-> "cluster-b",
                Kubelet |-> "kubelet-b"]
          [] OTHER ->
               [NodeRegistration |-> [Name |-> "node-1", CRISocket |-> "/var/run/dockershim.sock"],
                ClusterConfiguration |-> "cluster-a",
                Kubelet |-> "kubelet-b"]]

NodeNames == {InitConfiguration[p].NodeRegistration.Name : p \in CfgPtrs}

\* What Client() of a context returns: a handle and no error, or an error
\* (with or without a handle beside it).
ClientResults ==
    [client : Clients, err : {NoErr}] \cup [client : Clients \cup {NilClient}, err : BaseErrs]

\* The values a workflow.RunData can have, as far as the phase can tell them
\* apart: which of the two methods of uploadConfigData it has, and what they
\* return.  A method the value lacks returns nothing.
Contexts ==
    { [hasCfg |-> TRUE, hasClient |-> TRUE, cfg |-> p, client |-> r.client, clientErr |-> r.err] :
        p \in CfgPtrs, r \in ClientResults }
    \cup { [hasCfg |-> TRUE, hasClient |-> FALSE, cfg |-> p, client |-> NilClient, clientErr |-> NoErr] :
        p \in CfgPtrs }
    \cup { [hasCfg |-> FALSE, hasClient |-> TRUE, cfg |-> NilPtr, client |-> r.client, clientErr |-> r.err] :
        r \in ClientResults }
    \cup { [hasCfg |-> FALSE, hasClient |-> FALSE, cfg |-> NilPtr, client |-> NilClient, clientErr |-> NoErr] }

\* The type assertion as it would be with only Cfg() asked for.
uploadConfigData_CfgOnly(ctx) == ctx.hasCfg

\* type uploadConfigData interface { Cfg(); Client() }: the type assertion
\* c.(uploadConfigData) succeeds when the value has both methods.
uploadConfigData(ctx) == ctx.hasCfg /\ ctx.hasClient

----------------------------------------------------------------------------
\* The record of one call out of the package.

Call(op, p, cl, name, sock, e) ==
    [op |-> op, cfg |-> p, client |-> cl, name |-> name, sock |-> sock, err |-> e]

CfgCall(p) == Call("Cfg", p, NoArg, NoArg, NoArg, NoErr)

ClientCall(cl, e) == Call("Client", NoArg, cl, NoArg, NoArg, e)

\* getUploadConfigData as it would be if it wrapped the error of Client().
getUploadConfigData_WrapsClientErr(ctx) ==
    IF ~(ctx.hasCfg /\ ctx.hasClient)
    THEN [cfg |-> NilPtr, client |-> NilClient, err |-> ContractViolation, calls |-> << >>]
    ELSE LET made == <<CfgCall(ctx.cfg), ClientCall(ctx.client, ctx.clientErr)>>
         IN  IF ctx.clientErr # NoErr
             THEN [cfg |-> NilPtr, client |-> NilClient,
                   err |-> <<"unable to get the client">> \o ctx.clientErr, calls |-> made]
             ELSE [cfg |-> ctx.cfg, client |-> ctx.client, err |-> ctx.clientErr, calls |-> made]

\* What getUploadConfigData(c) returns, and the accessor calls it makes.
getUploadConfigData(ctx) ==
    IF ~uploadConfigData(ctx)
    THEN [cfg |-> NilPtr, client |-> NilClient, err |-> ContractViolation, calls |-> << >>]
    ELSE LET made == <<CfgCall(ctx.cfg), ClientCall(ctx.client, ctx.clientErr)>>
         IN  IF ctx.clientErr # NoErr
             THEN [cfg |-> NilPtr, client |-> NilClient, err |-> ctx.clientErr, calls |-> made]
             ELSE [cfg |-> ctx.cfg, client |-> ctx.client, err |-> ctx.clientErr, calls |-> made]

----------------------------------------------------------------------------
\* The collaborators: idempotent writes that either fail and change nothing
\* or succeed and leave the written object in place.

NoObject == "(absent)"

EmptyCluster ==
    [kubeadmConfig |-> NoObject,
     kubeletConfig |-> NoObject,
     criSocket |-> [n \in NodeNames |-> NoObject]]

\* uploadconfig.UploadConfiguration(cfg, client)
UploadConfiguration(p, cl, e, st) ==
    IF e # NoErr THEN st
    ELSE [st EXCEPT !.kubeadmConfig = InitConfiguration[p].ClusterConfiguration]

\* kubeletphase.CreateConfigMap(cfg, client)
CreateConfigMap(p, cl, e, st) ==
    IF e # NoErr THEN st
    ELSE [st EXCEPT !.kubeletConfig = InitConfiguration[p].Kubelet]

\* patchnodephase.AnnotateCRISocket(client, nodeName, criSocket)
AnnotateCRISocket(cl, name, sock, e, st) ==
    IF e # NoErr THEN st
    ELSE [st EXCEPT !.criSocket[name] = sock]

----------------------------------------------------------------------------
\* The state machine

NoContext == [hasCfg |-> FALSE, hasClient |-> FALSE, cfg |-> NilPtr, client |-> NilClient, clientErr |-> NoErr]

NoPrev == [fn |-> "none", c |-> NoContext, ret |-> NoErr, calls |-> << >>]

Init ==
    /\ pc = "idle"
    /\ fn = "none"
    /\ c = NoContext
    /\ cfg = NilPtr
    /\ client = NilClient
    /\ err = NoErr
    /\ ret = NoErr
    /\ calls = << >>
    /\ cluster = EmptyCluster
    /\ before = EmptyCluster
    /\ prev = NoPrev
    /\ runs = 0

\* The workflow engine runs one of the two child phases: Run of "kubeadm" or
\* of "kubelet", with the RunData it holds.
Invoke(f, ctx) ==
    /\ pc = "idle"
    /\ runs < MaxRuns
    /\ pc' = "resolve"
    /\ fn' = f
    /\ c' = ctx
    /\ cfg' = NilPtr
    /\ client' = NilClient
    /\ err' = NoErr
    /\ ret' = NoErr
    /\ calls' = << >>
    /\ before' = cluster
    /\ runs' = runs + 1
    /\ UNCHANGED <<cluster, prev>>

\* cfg, client, err := getUploadConfigData(c); if err != nil { return err }
Resolve(next) ==
    LET got == getUploadConfigData(c)
    IN  /\ cfg' = got.cfg
        /\ client' = got.client
        /\ err' = got.err
        /\ calls' = calls \o got.calls
        /\ IF got.err # NoErr
           THEN pc' = "done" /\ ret' = got.err
           ELSE pc' = next /\ ret' = ret
        /\ UNCHANGED <<fn, c, cluster, before, prev, runs>>

\* runUploadKubeadmConfig, its first statement
KubeadmResolve ==
    /\ pc = "resolve"
    /\ fn = "kubeadm"
    /\ Resolve("upload")

\* KubeadmUpload as it would be if the failure of the upload were dropped.
KubeadmUpload_DropsError ==
    /\ pc = "upload"
    /\ \E e \in {NoErr} \cup BaseErrs :
        /\ cluster' = UploadConfiguration(cfg, client, e, cluster)
        /\ calls' = Append(calls, Call("UploadConfiguration", cfg, client, NoArg, NoArg, e))
        /\ ret' = NoErr
    /\ pc' = "done"
    /\ UNCHANGED <<fn, c, cfg, client, err, before, prev, runs>>

\* KubeadmUpload as it would be if it returned the context message whether or
\* not the upload failed.
KubeadmUpload_AlwaysError ==
    /\ pc = "upload"
    /\ \E e \in {NoErr} \cup BaseErrs :
        /\ cluster' = UploadConfiguration(cfg, client, e, cluster)
        /\ calls' = Append(calls, Call("UploadConfiguration", cfg, client, NoArg, NoArg, e))
        /\ ret' = <<UploadPrefix>> \o e
    /\ pc' = "done"
    /\ UNCHANGED <<fn, c, cfg, client, err, before, prev, runs>>

\* runUploadKubeadmConfig: the call of UploadConfiguration and the return
KubeadmUpload ==
    /\ pc = "upload"
    /\ \E e \in {NoErr} \cup BaseErrs :
        /\ cluster' = UploadConfiguration(cfg, client, e, cluster)
        /\ calls' = Append(calls, Call("UploadConfiguration", cfg, client, NoArg, NoArg, e))
        /\ ret' = IF e # NoErr THEN Wrap(e, UploadPrefix) ELSE NoErr
    /\ pc' = "done"
    /\ UNCHANGED <<fn, c, cfg, client, err, before, prev, runs>>

\* runUploadKubeletConfig, its first statement
KubeletResolve ==
    /\ pc = "resolve"
    /\ fn = "kubelet"
    /\ Resolve("createConfigMap")

\* KubeletCreateConfigMap as it would be if the failure were noted and the
\* function went on to the annotation.
KubeletCreateConfigMap_Continues ==
    /\ pc = "createConfigMap"
    /\ \E e \in {NoErr} \cup BaseErrs :
        /\ cluster' = CreateConfigMap(cfg, client, e, cluster)
        /\ calls' = Append(calls, Call("CreateConfigMap", cfg, client, NoArg, NoArg, e))
        /\ err' = e
        /\ pc' = "annotate"
        /\ ret' = ret
    /\ UNCHANGED <<fn, c, cfg, client, before, prev, runs>>

\* KubeletCreateConfigMap as it would be with the message of the annotation
\* step pasted into it.
KubeletCreateConfigMap_WrongPrefix ==
    /\ pc = "createConfigMap"
    /\ \E e \in {NoErr} \cup BaseErrs :
        /\ cluster' = CreateConfigMap(cfg, client, e, cluster)
        /\ calls' = Append(calls, Call("CreateConfigMap", cfg, client, NoArg, NoArg, e))
        /\ err' = e
        /\ IF e # NoErr
           THEN pc' = "done" /\ ret' = Wrap(e, AnnotatePrefix)
           ELSE pc' = "annotate" /\ ret' = ret
    /\ UNCHANGED <<fn, c, cfg, client, before, prev, runs>>

\* runUploadKubeletConfig: the call of CreateConfigMap
KubeletCreateConfigMap ==
    /\ pc = "createConfigMap"
    /\ \E e \in {NoErr} \cup BaseErrs :
        /\ cluster' = CreateConfigMap(cfg, client, e, cluster)
        /\ calls' = Append(calls, Call("CreateConfigMap", cfg, client, NoArg, NoArg, e))
        /\ err' = e
        /\ IF e # NoErr
           THEN pc' = "done" /\ ret' = Wrap(e, CreatePrefix)
           ELSE pc' = "annotate" /\ ret' = ret
    /\ UNCHANGED <<fn, c, cfg, client, before, prev, runs>>

\* KubeletAnnotate as it would be if it returned the collaborator's error as is.
KubeletAnnotate_Unwrapped ==
    /\ pc = "annotate"
    /\ LET name == InitConfiguration[cfg].NodeRegistration.Name
           sock == InitConfiguration[cfg].NodeRegistration.CRISocket
       IN  \E e \in {NoErr} \cup BaseErrs :
            /\ cluster' = AnnotateCRISocket(client, name, sock, e, cluster)
            /\ calls' = Append(calls, Call("AnnotateCRISocket", NoArg, client, name, sock, e))
            /\ ret' = e
    /\ pc' = "done"
    /\ UNCHANGED <<fn, c, cfg, client, err, before, prev, runs>>

\* KubeletAnnotate as it would be if it passed the node name for the socket too.
KubeletAnnotate_NameTwice ==
    /\ pc = "annotate"
    /\ LET name == InitConfiguration[cfg].NodeRegistration.Name
           sock == InitConfiguration[cfg].NodeRegistration.Name
       IN  \E e \in {NoErr} \cup BaseErrs :
            /\ cluster' = AnnotateCRISocket(client, name, sock, e, cluster)
            /\ calls' = Append(calls, Call("AnnotateCRISocket", NoArg, client, name, sock, e))
            /\ ret' = IF e # NoErr THEN Wrap(e, AnnotatePrefix) ELSE NoErr
    /\ pc' = "done"
    /\ UNCHANGED <<fn, c, cfg, client, err, before, prev, runs>>

\* KubeletAnnotate as it would be if it asked the context for the client again.
KubeletAnnotate_Refetches ==
    /\ pc = "annotate"
    /\ LET name == InitConfiguration[cfg].NodeRegistration.Name
           sock == InitConfiguration[cfg].NodeRegistration.CRISocket
       IN  \E e \in {NoErr} \cup BaseErrs :
            /\ cluster' = AnnotateCRISocket(c.client, name, sock, e, cluster)
            /\ calls' = calls \o <<ClientCall(c.client, c.clientErr),
                                   Call("AnnotateCRISocket", NoArg, c.client, name, sock, e)>>
            /\ ret' = IF e # NoErr THEN Wrap(e, AnnotatePrefix) ELSE NoErr
    /\ pc' = "done"
    /\ UNCHANGED <<fn, c, cfg, client, err, before, prev, runs>>

\* KubeletAnnotate as it would be with a compensating step: the config map is
\* deleted when the annotation fails.
KubeletAnnotate_RollsBack ==
    /\ pc = "annotate"
    /\ LET name == InitConfiguration[cfg].NodeRegistration.Name
           sock == InitConfiguration[cfg].NodeRegistration.CRISocket
       IN  \E e \in {NoErr} \cup BaseErrs :
            /\ cluster' = IF e # NoErr
                           THEN [cluster EXCEPT !.kubeletConfig = NoObject]
                           ELSE AnnotateCRISocket(client, name, sock, e, cluster)
            /\ calls' = Append(calls, Call("AnnotateCRISocket", NoArg, client, name, sock, e))
            /\ ret' = IF e # NoErr THEN Wrap(e, AnnotatePrefix) ELSE NoErr
    /\ pc' = "done"
    /\ UNCHANGED <<fn, c, cfg, client, err, before, prev, runs>>

\* runUploadKubeletConfig: the call of AnnotateCRISocket and the return
KubeletAnnotate ==
    /\ pc = "annotate"
    /\ LET name == InitConfiguration[cfg].NodeRegistration.Name
           sock == InitConfiguration[cfg].NodeRegistration.CRISocket
       IN  \E e \in {NoErr} \cup BaseErrs :
            /\ cluster' = AnnotateCRISocket(client, name, sock, e, cluster)
            /\ calls' = Append(calls, Call("AnnotateCRISocket", NoArg, client, name, sock, e))
            /\ ret' = IF e # NoErr THEN Wrap(e, AnnotatePrefix) ELSE NoErr
    /\ pc' = "done"
    /\ UNCHANGED <<fn, c, cfg, client, err, before, prev, runs>>

\* The run function has returned; the engine takes the result.
Return ==
    /\ pc = "done"
    /\ pc' = "idle"
    /\ prev' = [fn |-> fn, c |-> c, ret |-> ret, calls |-> calls]
    /\ UNCHANGED <<fn, c, cfg, client, err, ret, calls, cluster, before, runs>>

Next ==
    \/ \E f \in {"kubeadm", "kubelet"}, ctx \in Contexts : Invoke(f, ctx)
    \/ KubeadmResolve
    \/ KubeadmUpload
    \/ KubeletResolve
    \/ KubeletCreateConfigMap
    \/ KubeletAnnotate
    \/ Return

Spec == Init /\ [][Next]_vars

----------------------------------------------------------------------------
\* Properties

\* The context resolves: it has both methods and Client() returns no error.
Resolves(ctx) == ctx.hasCfg /\ ctx.hasClient /\ ctx.clientErr = NoErr

\* The positions in a call sequence of the calls of op.
At(log, op) == {i \in DOMAIN log : log[i].op = op}

Collaborators == {"UploadConfiguration", "CreateConfigMap", "AnnotateCRISocket"}

\* This invocation called op and the call succeeded.
Applied(op) == \E i \in At(calls, op) : calls[i].err = NoErr

\* No call of the sequence failed.
AllOk(log) == \A i \in DOMAIN log : log[i].err = NoErr

\* The run function has returned and the engine has not yet taken the result.
Returned == pc = "done"

\* C1: in runUploadKubeletConfig with a context that resolves, once
\* CreateConfigMap has failed with E the function has returned, the error it
\* returned reads "error creating kubelet configuration ConfigMap: E", and
\* AnnotateCRISocket is not called in that invocation.
C1_CreateFailureSkipsAnnotation ==
    (fn = "kubelet" /\ Resolves(c)) =>
        \A i \in At(calls, "CreateConfigMap") :
            calls[i].err # NoErr =>
                /\ pc \in {"done", "idle"}
                /\ At(calls, "AnnotateCRISocket") = {}
                /\ ret = <<CreatePrefix>> \o calls[i].err
                /\ Contains(ret, CreatePrefix)

C1_Witness ==
    /\ Returned
    /\ fn = "kubelet"
    /\ Len(calls) = 3
    /\ calls[3].op = "CreateConfigMap"
    /\ calls[3].err = <<"quota exceeded">>
    /\ ret = <<CreatePrefix, "quota exceeded">>

\* C2: in runUploadKubeletConfig, when CreateConfigMap succeeded and
\* AnnotateCRISocket failed with E, the returned error reads "Error writing
\* Crisocket information for the control-plane node: E", and CreateConfigMap
\* was called exactly once, before the annotation call, with the configuration
\* and the client the context gave.
C2_AnnotationFailureWrapped ==
    fn = "kubelet" =>
        \A j \in At(calls, "AnnotateCRISocket") :
            (calls[j].err # NoErr /\ Applied("CreateConfigMap")) =>
                /\ pc \in {"done", "idle"}
                /\ ret = <<AnnotatePrefix>> \o calls[j].err
                /\ Cardinality(At(calls, "CreateConfigMap")) = 1
                /\ \A i \in At(calls, "CreateConfigMap") :
                    /\ i < j
                    /\ calls[i].cfg = c.cfg
                    /\ calls[i].client = c.client

C2_Witness ==
    /\ Returned
    /\ fn = "kubelet"
    /\ Len(calls) = 4
    /\ calls[3].op = "CreateConfigMap"
    /\ calls[3].err = NoErr
    /\ calls[4].op = "AnnotateCRISocket"
    /\ calls[4].err = <<"connection refused">>
    /\ ret = <<AnnotatePrefix, "connection refused">>

\* C3: when runUploadKubeletConfig has returned, the context resolved and no
\* collaborator failed, the result is nil and AnnotateCRISocket was called
\* exactly once, after CreateConfigMap, with NodeRegistration.Name and
\* NodeRegistration.CRISocket of the configuration Cfg() returned.
C3_KubeletSuccess ==
    (Returned /\ fn = "kubelet" /\ Resolves(c) /\ AllOk(calls)) =>
        /\ ret = NoErr
        /\ Cardinality(At(calls, "AnnotateCRISocket")) = 1
        /\ Cardinality(At(calls, "CreateConfigMap")) = 1
        /\ \A j \in At(calls, "AnnotateCRISocket") :
            /\ \A i \in At(calls, "CreateConfigMap") : i < j
            /\ calls[j].name = InitConfiguration[c.cfg].NodeRegistration.Name
            /\ calls[j].sock = InitConfiguration[c.cfg].NodeRegistration.CRISocket

C3_Witness ==
    /\ Returned
    /\ fn = "kubelet"
    /\ c.cfg = "cfg-a"
    /\ ret = NoErr
    /\ Len(calls) = 4
    /\ calls[4].op = "AnnotateCRISocket"
    /\ calls[4].name = "node-1"
    /\ calls[4].sock = "unix:///run/x.sock"

\* C4: for a context that lacks Cfg or Client, getUploadConfigData returns the
\* error "upload-config phase invoked with an invalid data struct" and calls
\* neither accessor, and either run function returns that error at once, with
\* no call made and the cluster as it was.
C4_ContractViolation ==
    (fn \in {"kubeadm", "kubelet"} /\ ~(c.hasCfg /\ c.hasClient)) =>
        /\ getUploadConfigData(c).err = ContractViolation
        /\ getUploadConfigData(c).calls = << >>
        /\ pc # "resolve" =>
            /\ pc \in {"done", "idle"}
            /\ ret = ContractViolation
            /\ calls = << >>
            /\ cluster = before

C4_Witness ==
    /\ Returned
    /\ fn = "kubelet"
    /\ c.hasCfg
    /\ ~c.hasClient
    /\ ret = ContractViolation
    /\ calls = << >>

\* C5: for a context that has both methods and whose Client() fails with E,
\* either run function returns E itself, not wrapped, and calls no collaborator.
C5_ClientErrorUnwrapped ==
    (fn \in {"kubeadm", "kubelet"} /\ c.hasCfg /\ c.hasClient /\ c.clientErr # NoErr
     /\ pc # "resolve") =>
        /\ pc \in {"done", "idle"}
        /\ ret = c.clientErr
        /\ \A i \in DOMAIN calls : calls[i].op \notin Collaborators
        /\ cluster = before

C5_Witness ==
    /\ Returned
    /\ fn = "kubeadm"
    /\ c.hasCfg
    /\ c.hasClient
    /\ c.clientErr = <<"connection refused">>
    /\ ret = <<"connection refused">>
    /\ Len(calls) = 2

\* C6: when runUploadKubeadmConfig has returned for a context that resolves,
\* UploadConfiguration was called exactly once, with the configuration and the
\* client of the context; the result is nil if the call succeeded, and reads
\* "error uploading the kubeadm ClusterConfiguration: E" if it failed with E.
C6_KubeadmUpload ==
    (Returned /\ fn = "kubeadm" /\ Resolves(c)) =>
        /\ Cardinality(At(calls, "UploadConfiguration")) = 1
        /\ \A i \in At(calls, "UploadConfiguration") :
            /\ calls[i].cfg = c.cfg
            /\ calls[i].client = c.client
            /\ calls[i].err = NoErr => ret = NoErr
            /\ calls[i].err # NoErr =>
                /\ ret = <<UploadPrefix>> \o calls[i].err
                /\ Contains(ret, UploadPrefix)
                /\ \A k \in DOMAIN calls[i].err : Contains(ret, calls[i].err[k])

C6_Witness ==
    /\ Returned
    /\ fn = "kubeadm"
    /\ Len(calls) = 3
    /\ calls[3].op = "UploadConfiguration"
    /\ calls[3].err = <<"quota exceeded">>
    /\ ret = <<UploadPrefix, "quota exceeded">>

\* C7: an invocation calls Client() at most once, and every collaborator call
\* it makes is given the handle that call returned.
C7_ClientFetchedOnce ==
    /\ Cardinality(At(calls, "Client")) <= 1
    /\ \A i \in DOMAIN calls :
        calls[i].op \in Collaborators =>
            \E k \in At(calls, "Client") : k < i /\ calls[i].client = calls[k].client

C7_Witness ==
    /\ Returned
    /\ fn = "kubelet"
    /\ Len(calls) = 4
    /\ calls[2].op = "Client"
    /\ calls[2].client = "client-2"
    /\ calls[3].op = "CreateConfigMap"
    /\ calls[3].client = "client-2"
    /\ calls[4].op = "AnnotateCRISocket"
    /\ calls[4].client = "client-2"

\* What the run function f writes for the configuration p is in the cluster st.
Persisted(f, p, st) ==
    IF f = "kubeadm"
    THEN st.kubeadmConfig = InitConfiguration[p].ClusterConfiguration
    ELSE /\ st.kubeletConfig = InitConfiguration[p].Kubelet
         /\ st.criSocket[InitConfiguration[p].NodeRegistration.Name]
                = InitConfiguration[p].NodeRegistration.CRISocket

\* C8: when a run function is invoked twice in succession with the same
\* context, the context resolves and no collaborator fails in either
\* invocation, both invocations return nil and the cluster after the second is
\* the cluster after the first, with what the function writes in it.
C8_Idempotent ==
    (Returned /\ runs >= 2 /\ prev.fn = fn /\ prev.c = c /\ Resolves(c)
     /\ AllOk(prev.calls) /\ AllOk(calls)) =>
        /\ prev.ret = NoErr
        /\ ret = NoErr
        /\ Persisted(fn, c.cfg, before)
        /\ cluster = before

C8_Witness ==
    /\ Returned
    /\ runs = 2
    /\ fn = "kubelet"
    /\ prev.fn = "kubelet"
    /\ prev.c = c
    /\ Resolves(c)
    /\ prev.ret = NoErr
    /\ ret = NoErr
    /\ Len(prev.calls) = 4
    /\ Len(calls) = 4
    /\ cluster = before
    /\ cluster # EmptyCluster

\* The annotation call of a call sequence failed.
AnnotationFailed(log) == \E j \in At(log, "AnnotateCRISocket") : log[j].err # NoErr

C10_ResultTellsEffects ==
    (Returned /\ fn = "kubelet") =>
        /\ ret = NoErr <=> (Applied("CreateConfigMap") /\ Applied("AnnotateCRISocket"))
        /\ (\/ ret = ContractViolation
            \/ ret \in BaseErrs
            \/ (ret # NoErr /\ Head(ret) = CreatePrefix)) =>
                /\ ~Applied("CreateConfigMap")
                /\ ~Applied("AnnotateCRISocket")
                /\ cluster = before
        /\ (ret # NoErr /\ Head(ret) = AnnotatePrefix) =>
                /\ Applied("CreateConfigMap")
                /\ ~Applied("AnnotateCRISocket")
                /\ cluster = [before EXCEPT !.kubeletConfig = InitConfiguration[c.cfg].Kubelet]
        /\ \/ ret = NoErr
           \/ ret = ContractViolation
           \/ ret \in BaseErrs
           \/ Head(ret) \in {CreatePrefix, AnnotatePrefix}

C10_Witness ==
    /\ Returned
    /\ fn = "kubelet"
    /\ ret # NoErr
    /\ Head(ret) = AnnotatePrefix
    /\ Applied("CreateConfigMap")
    /\ cluster # before

====
